---- MODULE Spec2Model ----
(***************************************************************************)
(* A model of the LLM chat worker of src/src/index.ts: the request         *)
(* dispatcher (fetch), the chat adapter (handleChatRequest), the two       *)
(* stream generators, and the browser client (ChatApp).                    *)
(*                                                                         *)
(* Text is a sequence of one-character strings, so that prefix tests,     *)
(* trimming, joining and framing are computed and not assumed.  A byte     *)
(* chunk is a sequence over Bytes: "a" is an ASCII byte, "L" the lead byte *)
(* and "T" the continuation byte of a two-byte UTF-8 character.            *)
(***************************************************************************)
EXTENDS Integers, Sequences, FiniteSets, TLC

VARIABLES
  \* ---- worker: dispatcher and chat adapter
  request,        \* method and path of the inbound request
  serverPc,       \* where the worker's handling of the request stands
  handler,        \* locals of handleChatRequest while it is running
  call,           \* the generator invocation in progress (its arguments)
  invoked,        \* the generators invoked for this request, in order
  bodyParsed,     \* request.json() has been called
  caught,         \* message of the exception caught by handleChatRequest
  response,       \* the Response returned to the client
  geminiRequest,  \* the prompt of the POST in flight to the Gemini endpoint
  assetReply,     \* what env.ASSETS.fetch(request) answered
  \* ---- worker: the Gemini generator's stream
  upState,        \* the upstream response body: none/open/ended/errored
  upBuf,          \* upstream chunks arrived and not yet read
  genPc,          \* the start() loop: idle/reading/closed/aborted
  outState,       \* the output ReadableStream: none/readable/closed/errored
  outQueue,       \* frames enqueued and not yet taken by the consumer
  chunksRead,     \* every chunk reader.read() has returned, in order
  emitted,        \* every frame passed to controller.enqueue, in order
  delivered,      \* every frame the consumer has taken, in order
  closeCalls,     \* number of controller.close() calls
  \* ---- browser client (ChatApp)
  userInput,      \* userInput.value
  inputDisabled,  \* userInput.disabled
  buttonDisabled, \* sendButton.disabled
  typingVisible,  \* typingIndicator has class "visible"
  isProcessing,   \* this.isProcessing
  chatHistory,    \* this.chatHistory
  chatMessages,   \* the children of the chat-messages element
  clientPc,       \* the sendMessage call in progress: idle/fetching/reading
  assistantEl,    \* index in chatMessages of assistantMessageEl
  responseText,   \* local responseText of sendMessage
  decoderPending, \* the streaming TextDecoder holds an incomplete lead byte
  requests,       \* every POST /api/chat the client issued, in order
  inFlight,       \* requests issued and not yet settled
  received,       \* byte chunks the current response has delivered
  settled,        \* how each request ended, in order
  ignoredCall     \* the last step was a sendMessage call that returned at once

serverVars == <<request, serverPc, handler, call, invoked, bodyParsed, caught,
                response, geminiRequest, assetReply>>
streamVars == <<upState, upBuf, genPc, outState, outQueue, chunksRead, emitted,
                delivered, closeCalls>>
clientVars == <<userInput, inputDisabled, buttonDisabled, typingVisible,
                isProcessing, chatHistory, chatMessages, clientPc, assistantEl,
                responseText, decoderPending, requests, inFlight, received,
                settled, ignoredCall>>
vars == <<serverVars, streamVars, clientVars>>

----------------------------------------------------------------------------
\* Bounds of the model.

\* longest message list in a request body
MaxMessages == 2
\* most chunks the upstream Gemini response delivers
MaxChunks == 3
\* most chat requests the client starts
MaxRequests == 2
\* most chunks a response body delivers to the client
MaxBodyChunks == 2

----------------------------------------------------------------------------
\* Text helpers.

RECURSIVE Flatten(_)
Flatten(ss) == IF ss = <<>> THEN <<>> ELSE Head(ss) \o Flatten(Tail(ss))

StartsWith(s, prefix) ==
  /\ Len(prefix) <= Len(s)
  /\ SubSeq(s, 1, Len(prefix)) = prefix

IsSpace(c) == c = " " \/ c = "\n"

RECURSIVE TrimStart(_)
TrimStart(s) ==
  IF s /= <<>> /\ IsSpace(Head(s)) THEN TrimStart(Tail(s)) ELSE s

RECURSIVE TrimEnd(_)
TrimEnd(s) ==
  IF s /= <<>> /\ IsSpace(s[Len(s)]) THEN TrimEnd(SubSeq(s, 1, Len(s) - 1)) ELSE s

Trim(s) == TrimEnd(TrimStart(s))

Bytes == {"a", "L", "T"}

\* new TextDecoder().decode(value): the whole chunk is decoded at once, and a
\* lead byte without its continuation, or a continuation byte on its own,
\* becomes the replacement character (written "?").
RECURSIVE Decode(_)
Decode(bytes) ==
  IF bytes = <<>> THEN <<>>
  ELSE IF Head(bytes) = "a" THEN <<"a">> \o Decode(Tail(bytes))
  ELSE IF Head(bytes) = "L" /\ Len(bytes) >= 2 /\ bytes[2] = "T"
       THEN <<"e">> \o Decode(Tail(Tail(bytes)))
  ELSE <<"?">> \o Decode(Tail(bytes))

\* decoder.decode(value, { stream: true }): a lead byte at the end of the
\* chunk is kept for the next call instead of being replaced.
DecodeStream(pending, bytes) ==
  LET all  == IF pending THEN <<"L">> \o bytes ELSE bytes
      hold == all /= <<>> /\ all[Len(all)] = "L"
      now  == IF hold THEN SubSeq(all, 1, Len(all) - 1) ELSE all
  IN [text |-> Decode(now), pending |-> hold]

----------------------------------------------------------------------------
\* The worker: constants and inputs.

SYSTEM_PROMPT == "You are a helpful, friendly assistant. Provide concise and accurate responses."

Roles == {"system", "user", "assistant"}
Contents == {"A", "B"}
ChatMessage == [role : Roles, content : Contents]

RECURSIVE SeqsUpTo(_, _)
SeqsUpTo(S, n) ==
  IF n = 0 THEN {<<>>}
  ELSE LET shorter == SeqsUpTo(S, n - 1)
       IN shorter \cup {Append(s, x) : s \in shorter, x \in S}

MessageLists == SeqsUpTo(ChatMessage, MaxMessages)

Models == {"gemini", "workers-ai", "", "Gemini", "gemini-pro"}

\* A request body: text that is not JSON, or a JSON object whose messages
\* field is absent, null or an array and whose model field is absent or a string.
MalformedBody ==
  [wellFormed |-> FALSE, messagesKind |-> "absent", messages |-> <<>>,
   hasModel |-> FALSE, model |-> ""]

JsonBodies ==
  {[wellFormed |-> TRUE, messagesKind |-> "array", messages |-> ms,
    hasModel |-> TRUE, model |-> m] : ms \in MessageLists, m \in Models}
  \cup
  {[wellFormed |-> TRUE, messagesKind |-> "array", messages |-> ms,
    hasModel |-> FALSE, model |-> ""] : ms \in MessageLists}
  \cup
  {[wellFormed |-> TRUE, messagesKind |-> k, messages |-> <<>>,
    hasModel |-> TRUE, model |-> m] : k \in {"absent", "null"}, m \in Models}
  \cup
  {[wellFormed |-> TRUE, messagesKind |-> k, messages |-> <<>>,
    hasModel |-> FALSE, model |-> ""] : k \in {"absent", "null"}}

Methods == {"GET", "POST", "PUT", "DELETE"}

PathRoot     == <<"/">>
PathIndex    == <<"/", "a", ".", "j", "s">>
PathApi      == <<"/", "a", "p", "i">>
PathApiSlash == <<"/", "a", "p", "i", "/">>
PathApiChat  == <<"/", "a", "p", "i", "/", "c", "h", "a", "t">>
PathApiChatSlash == <<"/", "a", "p", "i", "/", "c", "h", "a", "t", "/">>
PathApiOther == <<"/", "a", "p", "i", "/", "x">>
PathApix     == <<"/", "a", "p", "i", "x", "/", "c", "h", "a", "t">>
PathChat     == <<"/", "c", "h", "a", "t">>

Paths == {PathRoot, PathIndex, PathApi, PathApiSlash, PathApiChat,
          PathApiChatSlash, PathApiOther, PathApix, PathChat}

ApiPrefix == <<"/", "a", "p", "i", "/">>

\* What env.ASSETS.fetch(request) may answer.
AssetReplies ==
  {[status |-> 200, contentType |-> "text/html", body |-> "<html>"],
   [status |-> 404, contentType |-> "text/plain", body |-> "no such asset"]}

NoRequest  == [method |-> "", path |-> <<>>]
NoResponse == [status |-> 0, contentType |-> "", body |-> ""]
NoHandler  == [running |-> FALSE, body |-> MalformedBody, messages |-> <<>>, model |-> ""]
NoCall     == [generator |-> "none", messages |-> <<>>]

NoPrompt   == <<>>

Bodies == {MalformedBody} \cup JsonBodies

----------------------------------------------------------------------------
\* The dispatcher (fetch).

\* A Route that takes "/api" itself for the API prefix.
RouteLoosePrefix(method, path) ==
  IF path = PathRoot \/ ~StartsWith(path, PathApi) THEN "assets"
  ELSE IF path = PathApiChat THEN (IF method = "POST" THEN "chat" ELSE "405")
  ELSE "404"

Route(method, path) ==
  IF path = PathRoot \/ ~StartsWith(path, ApiPrefix) THEN "assets"
  ELSE IF path = PathApiChat THEN (IF method = "POST" THEN "chat" ELSE "405")
  ELSE "404"

TextResponse(status, text) ==
  [status |-> status, contentType |-> "text/plain;charset=UTF-8", body |-> text]

Fetch ==
  /\ serverPc = "idle"
  /\ \E method \in Methods, path \in Paths, asset \in AssetReplies :
       /\ request' = [method |-> method, path |-> path]
       /\ LET route == Route(method, path) IN
          IF route = "assets"
          THEN \* return env.ASSETS.fetch(request)
               /\ assetReply' = asset
               /\ response' = asset
               /\ serverPc' = "responded"
               /\ UNCHANGED <<handler, bodyParsed>>
          ELSE IF route = "chat"
          THEN \* handleChatRequest runs up to await request.json()
               /\ handler' = [NoHandler EXCEPT !.running = TRUE]
               /\ bodyParsed' = TRUE
               /\ serverPc' = "json"
               /\ UNCHANGED <<response, assetReply>>
          ELSE IF route = "405"
          THEN /\ response' = TextResponse(405, "Method not allowed")
               /\ serverPc' = "responded"
               /\ UNCHANGED <<handler, bodyParsed, assetReply>>
          ELSE /\ response' = TextResponse(404, "Not found")
               /\ serverPc' = "responded"
               /\ UNCHANGED <<handler, bodyParsed, assetReply>>
  /\ UNCHANGED <<call, invoked, caught, geminiRequest, streamVars, clientVars>>

----------------------------------------------------------------------------
\* The chat adapter (handleChatRequest).

HasSystem(messages) == \E i \in 1..Len(messages) : messages[i].role = "system"

SystemMessage == [role |-> "system", content |-> SYSTEM_PROMPT]

\* An AddSystemPrompt that inserts the default message whatever the list holds.
AddSystemPromptAlways(messages) == <<SystemMessage>> \o messages

AddSystemPrompt(messages) ==
  IF ~HasSystem(messages) THEN <<SystemMessage>> \o messages ELSE messages

\* A SelectGenerator that takes every model but the default for Gemini.
SelectGeneratorNotDefault(model) ==
  IF model /= "workers-ai" THEN "gemini" ELSE "workers-ai"

SelectGenerator(model) ==
  IF model = "gemini" THEN "gemini" ELSE "workers-ai"

DefaultMessages(body) ==
  IF body.messagesKind = "absent" THEN <<>> ELSE body.messages

DefaultModel(body) ==
  IF body.hasModel THEN body.model ELSE "workers-ai"

RECURSIVE Join(_, _)
Join(parts, sep) ==
  IF parts = <<>> THEN <<>>
  ELSE IF Len(parts) = 1 THEN <<parts[1]>>
  ELSE <<parts[1], sep>> \o Join(Tail(parts), sep)

Prompt(messages) ==
  Join([i \in 1..Len(messages) |-> messages[i].content], "\n")

\* An error response that carries the message of the exception.
ErrorResponseWithDetail(error) ==
  [status |-> 500, contentType |-> "application/json", body |-> error]

ErrorResponse(error) ==
  [status |-> 500, contentType |-> "application/json",
   body |-> "{\"error\":\"Failed to process request\"}"]

StreamResponse(generator) ==
  [status |-> 200, contentType |-> "text/event-stream", body |-> generator]

\* The catch block: whatever was thrown, the generic error is returned.
Catch(error) ==
  /\ caught' = error
  /\ response' = ErrorResponse(error)
  /\ serverPc' = "responded"
  /\ handler' = NoHandler
  /\ call' = NoCall

\* request.json() settles; on success the handler runs on to the await
\* inside the selected generator.
ParseBody ==
  /\ serverPc = "json"
  /\ \E b \in Bodies :
       IF ~b.wellFormed
       THEN Catch("SyntaxError") /\ UNCHANGED <<invoked, geminiRequest>>
       ELSE IF b.messagesKind = "null"
       THEN Catch("TypeError") /\ UNCHANGED <<invoked, geminiRequest>>
       ELSE LET messages  == AddSystemPrompt(DefaultMessages(b))
                model     == DefaultModel(b)
                generator == SelectGenerator(model)
            IN /\ handler' = [running |-> TRUE, body |-> b,
                              messages |-> messages, model |-> model]
               /\ call' = [generator |-> generator, messages |-> messages]
               /\ invoked' = Append(invoked, generator)
               /\ IF generator = "gemini"
                  THEN /\ geminiRequest' = Prompt(messages)
                       /\ serverPc' = "geminiFetch"
                  ELSE /\ geminiRequest' = geminiRequest
                       /\ serverPc' = "aiRun"
               /\ UNCHANGED <<caught, response>>
  /\ UNCHANGED <<request, bodyParsed, assetReply, streamVars, clientVars>>

\* ai.run(...) resolves with the backend's stream, which is returned as it is.
AiRunResolve ==
  /\ serverPc = "aiRun"
  /\ response' = StreamResponse("workers-ai")
  /\ serverPc' = "responded"
  /\ handler' = NoHandler
  /\ call' = NoCall
  /\ UNCHANGED <<request, invoked, bodyParsed, caught, geminiRequest,
                 assetReply, streamVars, clientVars>>

AiRunReject ==
  /\ serverPc = "aiRun"
  /\ Catch("ai.run failed")
  /\ UNCHANGED <<request, invoked, bodyParsed, geminiRequest, assetReply,
                 streamVars, clientVars>>

\* fetch(GEMINI_API_ENDPOINT) rejects.
GeminiFetchReject ==
  /\ serverPc = "geminiFetch"
  /\ Catch("fetch failed")
  /\ geminiRequest' = NoPrompt
  /\ UNCHANGED <<request, invoked, bodyParsed, assetReply, streamVars, clientVars>>

\* fetch(GEMINI_API_ENDPOINT) resolves.  Without a body the generator throws;
\* with one it builds the ReadableStream, whose start() runs to its first
\* await reader.read(), and the handler returns the stream in a Response.
GeminiFetchResolve ==
  /\ serverPc = "geminiFetch"
  /\ geminiRequest' = NoPrompt
  /\ \E hasBody \in BOOLEAN :
       IF ~hasBody
       THEN /\ Catch("Failed to get reader from Gemini API response")
            /\ UNCHANGED streamVars
       ELSE /\ upState' = "open"
            /\ genPc' = "reading"
            /\ outState' = "readable"
            /\ response' = StreamResponse("gemini")
            /\ serverPc' = "responded"
            /\ handler' = NoHandler
            /\ call' = NoCall
            /\ UNCHANGED <<caught, upBuf, outQueue, chunksRead, emitted,
                           delivered, closeCalls>>
  /\ UNCHANGED <<request, invoked, bodyParsed, assetReply, clientVars>>

----------------------------------------------------------------------------
\* The Gemini generator's stream (the ReadableStream built at lines 158-171).

\* The chunks the upstream response body may deliver.
UpstreamChunks == {<<"a">>, <<"L", "T">>, <<"L">>, <<"T", "a">>}

DataPrefix == <<"d", "a", "t", "a", ":", " ">>

\* `data: ${chunk}\n\n`
SseFrame(chunk) == DataPrefix \o chunk \o <<"\n", "\n">>

\* The upstream response body receives a chunk from the network.
UpstreamChunk ==
  /\ upState = "open"
  /\ Len(chunksRead) + Len(upBuf) < MaxChunks
  /\ \E c \in UpstreamChunks : upBuf' = Append(upBuf, c)
  /\ UNCHANGED <<upState, genPc, outState, outQueue, chunksRead, emitted,
                 delivered, closeCalls, serverVars, clientVars>>

\* The upstream response body ends.
UpstreamEnd ==
  /\ upState = "open"
  /\ upState' = "ended"
  /\ UNCHANGED <<upBuf, genPc, outState, outQueue, chunksRead, emitted,
                 delivered, closeCalls, serverVars, clientVars>>

\* The upstream response body fails; what it had buffered is discarded.
UpstreamFail ==
  /\ upState = "open"
  /\ upState' = "errored"
  /\ upBuf' = <<>>
  /\ UNCHANGED <<genPc, outState, outQueue, chunksRead, emitted,
                 delivered, closeCalls, serverVars, clientVars>>

\* An OnReadRejected that ends the loop and closes the stream as if done.
OnReadRejectedCloses ==
  /\ genPc' = "closed"
  /\ outState' = "closed"
  /\ closeCalls' = closeCalls + 1
  /\ UNCHANGED <<upBuf, outQueue, chunksRead, emitted>>

\* await reader.read() rejects: start() throws and the stream is errored,
\* which discards the frames still queued.
OnReadRejected ==
  /\ genPc' = "aborted"
  /\ outState' = "errored"
  /\ outQueue' = <<>>
  /\ UNCHANGED <<upBuf, chunksRead, emitted, closeCalls>>

\* An OnReadValue that forwards a chunk only when the queue is empty.
OnReadValueDropsWhenBusy(value) ==
  /\ upBuf' = Tail(upBuf)
  /\ chunksRead' = Append(chunksRead, value)
  /\ IF outQueue = <<>>
     THEN /\ outQueue' = Append(outQueue, SseFrame(Decode(value)))
          /\ emitted' = Append(emitted, SseFrame(Decode(value)))
     ELSE UNCHANGED <<outQueue, emitted>>
  /\ UNCHANGED <<genPc, outState, closeCalls>>

\* An OnReadValue that forwards the raw bytes without decoding them first.
OnReadValueNoDecode(value) ==
  /\ upBuf' = Tail(upBuf)
  /\ chunksRead' = Append(chunksRead, value)
  /\ outQueue' = Append(outQueue, SseFrame(value))
  /\ emitted' = Append(emitted, SseFrame(value))
  /\ UNCHANGED <<genPc, outState, closeCalls>>

\* read() gives { done: false, value }: decode, enqueue, loop to the next read.
OnReadValue(value) ==
  LET chunk == Decode(value)
  IN /\ upBuf' = Tail(upBuf)
     /\ chunksRead' = Append(chunksRead, value)
     /\ outQueue' = Append(outQueue, SseFrame(chunk))
     /\ emitted' = Append(emitted, SseFrame(chunk))
     /\ UNCHANGED <<genPc, outState, closeCalls>>

\* An OnReadDone that takes an empty buffer for the end of the upstream.
OnReadDoneEarly ==
  /\ chunksRead /= <<>>
  /\ genPc' = "closed"
  /\ outState' = "closed"
  /\ closeCalls' = closeCalls + 1
  /\ UNCHANGED <<upBuf, outQueue, chunksRead, emitted>>

\* read() gives { done: true }: break, then controller.close().
OnReadDone ==
  /\ upState = "ended"
  /\ genPc' = "closed"
  /\ outState' = "closed"
  /\ closeCalls' = closeCalls + 1
  /\ UNCHANGED <<upBuf, outQueue, chunksRead, emitted>>

\* One turn of the loop of start(): the pending reader.read() settles and the
\* code runs on to the next await, or to the end of start().
ReaderRead ==
  /\ genPc = "reading"
  /\ IF upState = "errored" THEN OnReadRejected
     ELSE IF upBuf /= <<>> THEN OnReadValue(Head(upBuf))
     ELSE OnReadDone
  /\ UNCHANGED <<upState, delivered, serverVars, clientVars>>

\* The consumer of the response body takes the next frame from the stream.
ConsumerRead ==
  /\ outState \in {"readable", "closed"}
  /\ outQueue /= <<>>
  /\ delivered' = Append(delivered, Head(outQueue))
  /\ outQueue' = Tail(outQueue)
  /\ UNCHANGED <<upState, upBuf, genPc, outState, chunksRead, emitted,
                 closeCalls, serverVars, clientVars>>

----------------------------------------------------------------------------
\* The worker's specification: one request, from its arrival to the end of
\* its response.

NoClient ==
  /\ userInput = <<>>
  /\ inputDisabled = FALSE
  /\ buttonDisabled = FALSE
  /\ typingVisible = FALSE
  /\ isProcessing = FALSE
  /\ chatHistory = <<>>
  /\ chatMessages = <<>>
  /\ clientPc = "idle"
  /\ assistantEl = 0
  /\ responseText = <<>>
  /\ decoderPending = FALSE
  /\ requests = <<>>
  /\ inFlight = 0
  /\ received = <<>>
  /\ settled = <<>>
  /\ ignoredCall = FALSE

NoWorker ==
  /\ request = NoRequest
  /\ serverPc = "idle"
  /\ handler = NoHandler
  /\ call = NoCall
  /\ invoked = <<>>
  /\ bodyParsed = FALSE
  /\ caught = ""
  /\ response = NoResponse
  /\ geminiRequest = NoPrompt
  /\ assetReply = NoResponse
  /\ upState = "none"
  /\ upBuf = <<>>
  /\ genPc = "idle"
  /\ outState = "none"
  /\ outQueue = <<>>
  /\ chunksRead = <<>>
  /\ emitted = <<>>
  /\ delivered = <<>>
  /\ closeCalls = 0

Init == NoWorker /\ NoClient

Next ==
  \/ Fetch
  \/ ParseBody
  \/ AiRunResolve
  \/ AiRunReject
  \/ GeminiFetchResolve
  \/ GeminiFetchReject
  \/ UpstreamChunk
  \/ UpstreamEnd
  \/ UpstreamFail
  \/ ReaderRead
  \/ ConsumerRead

Spec == Init /\ [][Next]_vars

\* The continuation of an awaited read runs once the read has settled.
FairSpec == Spec /\ WF_vars(ReaderRead)

----------------------------------------------------------------------------
\* The browser client (ChatApp).

Greeting ==
  <<"Hello! I'm an LLM chat app powered by both Workers AI and the Gemini API. How can I help you today?">>

Apology == <<"Sorry, there was an error processing your request.">>

\* What userInput.value may be set to.
InputTexts == {<<>>, <<" ">>, <<" ", "h", "\n">>}

\* The chunks a response body may deliver to the client.
BodyChunks == {<<"a">>, <<"L">>, <<"T">>}

\* addMessageToChat(role, content): one more child of chat-messages.
AddMessageToChat(elements, role, content) ==
  Append(elements, [role |-> role, content |-> content])

\* The constructor: empty history, not processing, the greeting displayed.
ClientInit ==
  /\ userInput = <<>>
  /\ inputDisabled = FALSE
  /\ buttonDisabled = FALSE
  /\ typingVisible = FALSE
  /\ isProcessing = FALSE
  /\ chatHistory = <<>>
  /\ chatMessages = AddMessageToChat(<<>>, "assistant", Greeting)
  /\ clientPc = "idle"
  /\ assistantEl = 0
  /\ responseText = <<>>
  /\ decoderPending = FALSE
  /\ requests = <<>>
  /\ inFlight = 0
  /\ received = <<>>
  /\ settled = <<>>
  /\ ignoredCall = FALSE

\* userInput.value is set: typed by the user, or set by script while the
\* field is disabled.
TypeInput ==
  /\ \E text \in InputTexts : text /= userInput /\ userInput' = text
  /\ ignoredCall' = FALSE
  /\ UNCHANGED <<inputDisabled, buttonDisabled, typingVisible, isProcessing,
                 chatHistory, chatMessages, clientPc, assistantEl,
                 responseText, decoderPending, requests, inFlight, received,
                 settled, serverVars, streamVars>>

NonSystem(history) == SelectSeq(history, LAMBDA msg : msg.role /= "system")

\* sendMessage from line 230 to the await of fetch("/api/chat").
StartRequest(message) ==
  /\ Len(requests) < MaxRequests
  /\ isProcessing' = TRUE
  /\ inputDisabled' = TRUE
  /\ buttonDisabled' = TRUE
  /\ chatHistory' = Append(chatHistory, [role |-> "user", content |-> message])
  /\ userInput' = <<>>
  /\ typingVisible' = TRUE
  /\ chatMessages' =
       AddMessageToChat(AddMessageToChat(chatMessages, "user", message),
                        "assistant", <<>>)
  /\ assistantEl' = Len(chatMessages) + 2
  /\ requests' = Append(requests, [messages |-> NonSystem(chatHistory')])
  /\ inFlight' = inFlight + 1
  /\ clientPc' = "fetching"
  /\ received' = <<>>
  /\ ignoredCall' = FALSE
  /\ UNCHANGED <<responseText, decoderPending, settled>>

\* The early return of line 228.
IgnoreCall ==
  /\ ignoredCall' = TRUE
  /\ UNCHANGED <<userInput, inputDisabled, buttonDisabled, typingVisible,
                 isProcessing, chatHistory, chatMessages, clientPc,
                 assistantEl, responseText, decoderPending, requests,
                 inFlight, received, settled>>

\* A SendMessage that tests the input only, not isProcessing.
SendMessageNoProcessingGuard ==
  /\ LET message == Trim(userInput)
     IN IF message = <<>> THEN IgnoreCall ELSE StartRequest(message)
  /\ UNCHANGED <<serverVars, streamVars>>

\* sendMessage(), called by a click on the send button or by Enter.
SendMessage ==
  /\ LET message == Trim(userInput)
     IN IF message = <<>> \/ isProcessing
        THEN IgnoreCall
        ELSE StartRequest(message)
  /\ UNCHANGED <<serverVars, streamVars>>

\* The finally block, after which the locals of the call are gone.
Finally ==
  /\ assistantEl' = 0
  /\ responseText' = <<>>
  /\ decoderPending' = FALSE
  /\ typingVisible' = FALSE
  /\ isProcessing' = FALSE
  /\ inputDisabled' = FALSE
  /\ buttonDisabled' = FALSE
  /\ clientPc' = "idle"
  /\ inFlight' = inFlight - 1
  /\ ignoredCall' = FALSE

\* The catch block, then the finally block.
CatchThenFinally(how) ==
  /\ chatMessages' = AddMessageToChat(chatMessages, "assistant", Apology)
  /\ settled' = Append(settled, how)
  /\ Finally
  /\ UNCHANGED <<userInput, chatHistory, requests, received>>

\* fetch("/api/chat") rejects.
FetchRejects ==
  /\ clientPc = "fetching"
  /\ CatchThenFinally("rejected")
  /\ UNCHANGED <<serverVars, streamVars>>

\* fetch("/api/chat") resolves: a status that is not ok throws, a response
\* without a body throws at getReader(), otherwise the read loop starts.
FetchResolves ==
  /\ clientPc = "fetching"
  /\ \E ok \in BOOLEAN, hasBody \in BOOLEAN :
       IF ~ok THEN CatchThenFinally("status")
       ELSE IF ~hasBody THEN CatchThenFinally("no body")
       ELSE /\ clientPc' = "reading"
            /\ responseText' = <<>>
            /\ decoderPending' = FALSE
            /\ ignoredCall' = FALSE
            /\ UNCHANGED <<userInput, inputDisabled, buttonDisabled,
                           typingVisible, isProcessing, chatHistory,
                           chatMessages, assistantEl, requests, inFlight,
                           received, settled>>
  /\ UNCHANGED <<serverVars, streamVars>>

\* reader.read() gives a chunk: decode, append, show the text so far.
ReadChunk ==
  /\ clientPc = "reading"
  /\ Len(received) < MaxBodyChunks
  /\ \E value \in BodyChunks :
       LET decoded == DecodeStream(decoderPending, value)
       IN /\ received' = Append(received, value)
          /\ decoderPending' = decoded.pending
          /\ responseText' = responseText \o decoded.text
          /\ chatMessages' =
               [chatMessages EXCEPT ![assistantEl].content = responseText']
  /\ ignoredCall' = FALSE
  /\ UNCHANGED <<userInput, inputDisabled, buttonDisabled, typingVisible,
                 isProcessing, chatHistory, clientPc, assistantEl, requests,
                 inFlight, settled, serverVars, streamVars>>

\* reader.read() gives done: the reply is added to the history.
ReadDone ==
  /\ clientPc = "reading"
  /\ chatHistory' =
       Append(chatHistory, [role |-> "assistant", content |-> responseText])
  /\ settled' = Append(settled, "end of stream")
  /\ Finally
  /\ UNCHANGED <<userInput, chatMessages, requests, received, serverVars,
                 streamVars>>

\* A ReadFails that keeps the partial reply in the history.
ReadFailsKeepsPartial ==
  /\ clientPc = "reading"
  /\ chatMessages' = AddMessageToChat(chatMessages, "assistant", Apology)
  /\ chatHistory' =
       Append(chatHistory, [role |-> "assistant", content |-> responseText])
  /\ settled' = Append(settled, "read failed")
  /\ Finally
  /\ UNCHANGED <<userInput, requests, received, serverVars, streamVars>>

\* reader.read() rejects in the middle of the stream.
ReadFails ==
  /\ clientPc = "reading"
  /\ CatchThenFinally("read failed")
  /\ UNCHANGED <<serverVars, streamVars>>

ClientNext ==
  \/ TypeInput
  \/ SendMessage
  \/ FetchRejects
  \/ FetchResolves
  \/ ReadChunk
  \/ ReadDone
  \/ ReadFails

InitClient == ClientInit /\ NoWorker

ClientSpec == InitClient /\ [][ClientNext]_vars

----------------------------------------------------------------------------
\* Properties of the worker.

NumSystem(messages) ==
  Cardinality({i \in 1..Len(messages) : messages[i].role = "system"})

\* C1: while the selected generator is running, the list it was passed is the
\* parsed list with exactly one default system message put in front when the
\* parsed list holds no system message (every other message unchanged and in
\* its place), and the parsed list itself when it holds one or more; the
\* default message is inserted at most once.
C1_SystemPromptInsertedOnce ==
  call.generator /= "none" =>
    LET input  == IF handler.body.messagesKind = "array"
                  THEN handler.body.messages ELSE <<>>
        passed == call.messages
    IN IF NumSystem(input) = 0
       THEN /\ Len(passed) = Len(input) + 1
            /\ passed[1] = [role |-> "system", content |-> SYSTEM_PROMPT]
            /\ \A i \in 1..Len(input) : passed[i + 1] = input[i]
            /\ NumSystem(passed) = 1
       ELSE passed = input

\* A request of two messages, neither a system message, has reached its generator.
C1_Witness ==
  /\ call.generator /= "none"
  /\ handler.body.messagesKind = "array"
  /\ Len(handler.body.messages) = 2
  /\ NumSystem(handler.body.messages) = 0
  /\ Len(call.messages) = 3

\* C2: for a request whose body parsed into a message list, exactly one
\* generator is invoked, and it is the Gemini generator exactly when the
\* model field is present and is the string "gemini"; a 200 stream response
\* carries the stream of the one generator that was invoked.
C2_GeminiIffModelIsGemini ==
  /\ Len(invoked) <= 1
  /\ call.generator /= "none" =>
       /\ invoked = <<call.generator>>
       /\ call.generator \in {"gemini", "workers-ai"}
       /\ (call.generator = "gemini") <=>
            (handler.body.hasModel /\ handler.body.model = "gemini")
       /\ (serverPc = "geminiFetch") <=> (call.generator = "gemini")
       /\ (serverPc = "aiRun") <=> (call.generator = "workers-ai")
  /\ response.status = 200 /\ response.contentType = "text/event-stream" =>
       invoked = <<response.body>>

\* A request with another model string than "gemini" is with the primary generator.
C2_Witness ==
  /\ serverPc = "aiRun"
  /\ handler.body.hasModel
  /\ handler.body.model = "gemini-pro"
  /\ invoked = <<"workers-ai">>

StaticPaths   == {PathRoot, PathIndex, PathApi, PathApix, PathChat}
NotFoundPaths == {PathApiSlash, PathApiChatSlash, PathApiOther}

\* C4: once the dispatcher has run, the outcome is fixed by method and path:
\* a path that is "/" or does not begin with "/api/" gets the static-asset
\* collaborator's response as it is; "/api/chat" with POST enters the chat
\* adapter; "/api/chat" with another method gets 405; every other path under
\* "/api/" gets 404 whatever the method; and in the static, 405 and 404
\* outcomes the body is never parsed and no backend is called.
C4_RoutingByMethodAndPath ==
  serverPc /= "idle" =>
    /\ request.path \in StaticPaths =>
         /\ serverPc = "responded"
         /\ assetReply \in AssetReplies
         /\ response = assetReply
    /\ request.path = PathApiChat /\ request.method = "POST" =>
         /\ bodyParsed
         /\ assetReply = NoResponse
         /\ response.status \in {0, 200, 500}
    /\ request.path = PathApiChat /\ request.method /= "POST" =>
         /\ serverPc = "responded"
         /\ response.status = 405
    /\ request.path \in NotFoundPaths =>
         /\ serverPc = "responded"
         /\ response.status = 404
    /\ ~(request.path = PathApiChat /\ request.method = "POST") =>
         /\ ~bodyParsed
         /\ invoked = <<>>
         /\ geminiRequest = NoPrompt
         /\ upState = "none"
         /\ outState = "none"

\* A GET of "/api", which is not under "/api/", got the asset reply.
C4_Witness ==
  /\ request = [method |-> "GET", path |-> PathApi]
  /\ response = assetReply
  /\ response.status = 200

GenericError ==
  [status |-> 500, contentType |-> "application/json",
   body |-> "{\"error\":\"Failed to process request\"}"]

\* C5: every exception raised in handleChatRequest (body parsing, system
\* message insertion, a generator before it returns its stream) is caught
\* and answered by the one generic 500 response, which carries nothing of
\* the exception; a chat request ends with that response or, when nothing
\* was thrown, with a 200 event stream, never both.
C5_EveryExceptionIsGeneric500 ==
  /\ caught /= "" =>
       /\ serverPc = "responded"
       /\ response = GenericError
       /\ response.body /= caught
       /\ outState = "none"
  /\ serverPc = "responded" /\ bodyParsed /\ caught = "" =>
       /\ response.status = 200
       /\ response.contentType = "text/event-stream"
       /\ response.body = "gemini" => outState /= "none"
  /\ response.status = 200 /\ bodyParsed => caught = ""

\* The Gemini response had no readable body and the request ended in the 500.
C5_Witness ==
  /\ caught = "Failed to get reader from Gemini API response"
  /\ response.status = 500
  /\ invoked = <<"gemini">>

\* C6 as stated: a failure before the first frame is emitted, the first
\* upstream read failing included, ends in the 500 error response, and an
\* aborted 200 stream has emitted at least one frame.
C6_FailureBeforeFirstByteIs500 ==
  (caught /= "" \/ genPc = "aborted") /\ emitted = <<>> => response.status = 500

\* C6 as amended: a failure before the generator has returned its stream ends
\* in the 500 error response with nothing emitted; a failed upstream read,
\* the first one included, comes after the 200 event-stream response was
\* returned and leaves that response with an errored stream, never a closed one.
C6_FailureAfterStreamReturnedIs200 ==
  /\ caught /= "" =>
       /\ response.status = 500
       /\ genPc = "idle"
       /\ emitted = <<>>
  /\ genPc = "aborted" =>
       /\ response.status = 200
       /\ response.contentType = "text/event-stream"
       /\ outState = "errored"
       /\ caught = ""
  /\ upState = "errored" => genPc \in {"reading", "aborted"} /\ closeCalls = 0

\* The first upstream read failed and the response is a 200 with no frame.
C6_Witness ==
  /\ genPc = "aborted"
  /\ chunksRead = <<>>
  /\ emitted = <<>>
  /\ response.status = 200

\* C3: the frames emitted so far are, one for one and in order, the chunks
\* read so far, each as "data: ", the decoded chunk, and two newlines.
C3_FramesMatchChunksRead ==
  /\ Len(emitted) = Len(chunksRead)
  /\ \A i \in 1..Len(chunksRead) :
       emitted[i] = <<"d", "a", "t", "a", ":", " ">> \o Decode(chunksRead[i])
                      \o <<"\n", "\n">>

\* A two-byte character split over two chunks has been read and framed.
C3_Witness ==
  /\ Len(chunksRead) = 3
  /\ chunksRead[1] = <<"L">>
  /\ chunksRead[2] = <<"T", "a">>
  /\ emitted[1] = <<"d", "a", "t", "a", ":", " ", "?", "\n", "\n">>

C9_StreamLifecycle ==
  /\ [](closeCalls <= 1)
  /\ [](genPc = "closed" =>
          /\ closeCalls = 1
          /\ upState = "ended"
          /\ upBuf = <<>>
          /\ Len(emitted) = Len(chunksRead))
  /\ [][genPc' /= genPc =>
          \/ genPc = "idle" /\ genPc' = "reading"
          \/ genPc = "reading" /\ genPc' \in {"closed", "aborted"}]_vars
  /\ [][(genPc = "closed" \/ genPc = "aborted") =>
          (UNCHANGED <<genPc, emitted, chunksRead, upBuf, closeCalls>>)]_vars
  /\ (upState = "ended" ~> genPc = "closed")

\* The stream was closed after every upstream chunk was emitted.
C9_Witness ==
  /\ genPc = "closed"
  /\ Len(emitted) = MaxChunks
  /\ closeCalls = 1

----------------------------------------------------------------------------
\* Properties of the browser client.

NumRole(history, role) ==
  Cardinality({i \in 1..Len(history) : history[i].role = role})

NumApologies ==
  Cardinality({i \in 1..Len(chatMessages) : chatMessages[i].content = Apology})

NumEnded(how) == Cardinality({i \in 1..Len(settled) : settled[i] = how})

\* The text of the bytes received, decoded as one stream: an incomplete
\* character at the very end is still held by the decoder.
TextOf(chunks) ==
  LET bytes == Flatten(chunks)
  IN IF bytes /= <<>> /\ bytes[Len(bytes)] = "L"
     THEN Decode(SubSeq(bytes, 1, Len(bytes) - 1))
     ELSE Decode(bytes)

\* C7: chatHistory holds one assistant entry for each request whose response
\* was ok and was read to the end of its stream, and none for any other; the
\* entry added at the end of a stream holds the text of all chunks received,
\* in arrival order; a request that ended any other way (fetch rejected,
\* status not ok, a read failed) added the apology to the display instead;
\* and one request is issued per accepted message, never a second one.
C7_AssistantEntryOnlyAfterFullStream ==
  /\ NumRole(chatHistory, "assistant") = NumEnded("end of stream")
  /\ NumApologies = Len(settled) - NumEnded("end of stream")
  /\ Len(requests) = NumRole(chatHistory, "user")
  /\ Len(requests) = Len(settled) + inFlight
  /\ clientPc = "idle" /\ settled /= <<>> =>
       IF settled[Len(settled)] = "end of stream"
       THEN /\ chatHistory[Len(chatHistory)] =
                 [role |-> "assistant", content |-> TextOf(received)]
            /\ chatMessages[Len(chatMessages)] =
                 [role |-> "assistant", content |-> TextOf(received)]
       ELSE /\ chatHistory[Len(chatHistory)].role = "user"
            /\ chatMessages[Len(chatMessages)] =
                 [role |-> "assistant", content |-> Apology]

\* A reply whose two-byte character arrived split over two chunks is in the
\* history as one character.
C7_Witness ==
  /\ clientPc = "idle"
  /\ settled = <<"end of stream">>
  /\ received = << <<"L">>, <<"T">> >>
  /\ chatHistory[2] = [role |-> "assistant", content |-> <<"e">>]

\* A read failed after a chunk had arrived: the apology, and no entry.
C7_WitnessFailure ==
  /\ clientPc = "idle"
  /\ settled = <<"read failed">>
  /\ Len(received) = 1
  /\ NumRole(chatHistory, "assistant") = 0

\* C10: at most one request is in flight, and one is exactly while
\* isProcessing is true; no step taken while isProcessing is true or the
\* trimmed input is empty issues a request; a sendMessage call that returns
\* at once changes nothing of the history, the display or the requests; and
\* the step that settles a request, in success or in failure, leaves
\* isProcessing false and the input and the button enabled.
C10_OneRequestInFlight ==
  /\ [](/\ inFlight <= 1
        /\ isProcessing <=> inFlight = 1
        /\ isProcessing <=> clientPc /= "idle"
        /\ inputDisabled = isProcessing
        /\ buttonDisabled = isProcessing)
  /\ [][(isProcessing \/ Trim(userInput) = <<>>) => requests' = requests]_vars
  /\ [][ignoredCall' =>
          (UNCHANGED <<chatHistory, chatMessages, requests, inFlight,
                       isProcessing, userInput>>)]_vars
  /\ [][Len(settled') > Len(settled) =>
          ~isProcessing' /\ ~inputDisabled' /\ ~buttonDisabled']_vars

\* sendMessage was called with text in the input while a request was in flight.
C10_Witness ==
  /\ ignoredCall
  /\ isProcessing
  /\ Trim(userInput) /= <<>>
  /\ inFlight = 1

====
